---- MODULE Spec2Model ----
(***************************************************************************)
(* Conversation orchestration of the MEK-AI backend:                       *)
(*   ConversationMemoryManager  app/services/memory/conversation_memory.py *)
(*   DigitalEmployeeAgent       app/agents/digital_employee_agent.py       *)
(*   BaseAgent.initialize       app/agents/base_agent.py                   *)
(*   ChatService                app/services/ai/chat_service.py            *)
(*                                                                         *)
(* Two specifications share the variables:                                 *)
(*   SpecMem  the memory manager driven through its own API                *)
(*   Spec     chat turns (process_chat_message), split at their await      *)
(*            points, with conversation deletes, employee updates and      *)
(*            cache clears in between                                      *)
(***************************************************************************)
EXTENDS Integers, Sequences, FiniteSets, TLC

(***************************************************************************)
(* Bounds of the model                                                     *)
(***************************************************************************)
\* ConversationMemoryManager(max_history): the constructor parameter, scaled
\* down from the default of the global instance (20) so that trimming happens
\* within the bounds
max_history == 4
\* uuid4 conversation ids handed out (ids are 1..MaxConvs, never reused)
MaxConvs == 2
\* messages appended to the stored conversations in one run of SpecMem
MaxAppends == 5
\* delete_conversation calls on one conversation id in one run of SpecMem
MaxDeletes == 2
\* chat turns started in one run of Spec
MaxTurns == 3
\* messages appended by the recorded add_message calls of one SpecApi run
MaxApiAppends == 3
\* the largest limit passed to the two history readers (beyond max_history,
\* so that a limit above the number of stored messages happens)
MaxLimit == 5
MaxKbIds == 2
\* rows of the messages table in one run of SpecRepo, and the longest list
\* given to create_messages
MaxRows == 4
MaxBatch == 2
\* uuid4 item ids handed out in one run of SpecKbRepo (ids are 1..MaxItems)
MaxItems == 3
\* hire_employee calls that reach the counter of one employee in one run of
\* SpecHire
MaxHires == 3

(***************************************************************************)
(* Program constants                                                       *)
(***************************************************************************)
\* AgentConfig.max_iterations as _create_agent_config sets it
\* (employee_config.get("max_iterations", 5); _get_employee_config has no
\* such key)
DefaultMaxIterations == 5
\* @retry_with_backoff(max_retries=3, base_delay=1.0, max_delay=10.0) on
\* ChatDeepSeek._agenerate
max_retries == 3
base_delay == 1
max_delay == 10
\* limit=10 of the history reads of _prepare_context and process_message
HistoryLimit == 10
\* settings.MODEL_TEMPERATURE, 0.7, in tenths (temperatures are in tenths
\* throughout), and settings.MODEL_MAX_TOKENS
MODEL_TEMPERATURE == 7
MODEL_MAX_TOKENS == 4096

None == "None"

ConvIds == 1..MaxConvs
\* with 0, an id that is never generated
AnyConvIds == 0..MaxConvs
EmpIds == {"e1", "e2"}
UserIds == {"u1", "u2"}
\* request slots; Spec runs its turns one at a time in the first
Reqs == {1, 2}
SeqReqs == {1}

\* the roles add_message tests for, then MessageRole.TOOL of the data model
Roles == {"user", "assistant", "system", "tool"}

VARIABLES
    conversations,   \* ConversationMemoryManager._conversations
    memories,        \* ConversationMemoryManager._memories (chat_memory.messages)
    next_conv,       \* number of uuid4 conversation ids generated so far
    employees,       \* employee store: knowledge_base_ids per employee
    employee_agents, \* ChatService._employee_agents
    req,             \* the chat turns in flight, one record per request slot
    calls,           \* chat turns started so far
    log,             \* history of the manager's clients (SpecMem): per stored
                     \* conversation, its initial system message and the message
                     \* of every add_message call on it that returned True
    del_rets,        \* history (SpecMem): per conversation id, for each
                     \* delete_conversation call whether the conversation was
                     \* stored, whether it held messages, and what the call
                     \* returned
    executor_memory, \* per cached agent: the ConversationBufferMemory of its
                     \* executor (the messages it holds) and the requests in
                     \* flight that hold the agent
    returned,        \* history (SpecApi): the last add_message call or delete
                     \* request made by a client, with what it returned
    retry            \* one call of ChatDeepSeek._agenerate under
                     \* retry_with_backoff (SpecRetry): where async_wrapper
                     \* is, the error of each failed attempt, the delays slept
    , retrieval      \* one run of KnowledgeRetrievalTool._arun (SpecKb): its
                     \* id list, the position of its loop, the results list
    , tables         \* the database under ConversationRepository (SpecRepo):
                     \* the conversations rows with their message_count, the
                     \* messages rows, whether the last call raised
    , model_build    \* the model configuration of one agent build
                     \* (SpecModel): the overrides of the request, the
                     \* ModelConfig made of them, the verdict, the outcome
    , kb_tables      \* the database under KnowledgeRepository (SpecKbRepo): the
                     \* knowledge_bases rows with their doc_count, the
                     \* knowledge_items rows
    , hiring         \* the employee store of EmployeeService (SpecHire): the
                     \* hire fields of each record, who has hired whom, the last
                     \* hire_employee call

\* the ids a caller can send: those generated so far (stored or deleted since)
\* and the one that never exists; a uuid4 not generated yet cannot be guessed
KnownIds == 0..next_conv

\* the variables of the conversation stores and the chat service, and those
\* of the components modelled on their own
appvars == <<conversations, memories, next_conv, employees, employee_agents, req,
             calls, log, del_rets, executor_memory, returned>>
compvars == <<retry, retrieval, model_build, tables, kb_tables, hiring>>

vars == <<appvars, compvars>>

(***************************************************************************)
(* Python helpers                                                          *)
(***************************************************************************)
Min(a, b) == IF a < b THEN a ELSE b
Max(a, b) == IF a > b THEN a ELSE b

\* s[i:] with Python's reading of a negative or oversized index
PySliceFrom(s, i) ==
    LET n == Len(s)
        start == IF i < 0 THEN Max(n + i, 0) ELSE Min(i, n)
    IN  SubSeq(s, start + 1, n)

\* s[-k:]; for k = 0 this is s[0:], the whole list
PyLast(s, k) == PySliceFrom(s, 0 - k)

IsSystem(m) == m.role = "system"
NotSystem(m) == m.role # "system"

(***************************************************************************)
(* ConversationMemoryManager                                               *)
(***************************************************************************)
\* a record of ConversationState.messages; mid is metadata["message_id"]
\* (0 when the caller gave no metadata)
Msg(role, content, mid) == [role |-> role, content |-> content, mid |-> mid]

\* readings of datetime.now() relative to a conversation's creation: the
\* reading create_conversation takes, and any reading taken afterwards
CreatedNow == "created"
LaterNow == "later"

\* the LangChain message add_message builds for a role
LcType(role) ==
    CASE role = "user" -> "human"
      [] role = "assistant" -> "ai"
      [] role = "system" -> "system"
      [] OTHER -> None

LcMsg(role, content) == [type |-> LcType(role), content |-> content]

\* the role a LangChain message stands for
LcRole(m) ==
    CASE m.type = "human" -> "user"
      [] m.type = "ai" -> "assistant"
      [] m.type = "system" -> "system"
      [] OTHER -> None

\* "conversation_id in self._conversations": the dicts are functions whose
\* domain is the set of keys present
Exists(convs, cid) == cid \in DOMAIN convs

\* _sync_memory_from_state: a new memory rebuilt from the stored messages
RECURSIVE sync_memory_from_state(_)
sync_memory_from_state(msgs) ==
    IF msgs = <<>> THEN <<>>
    ELSE (IF LcType(Head(msgs).role) # None
          THEN <<LcMsg(Head(msgs).role, Head(msgs).content)>>
          ELSE <<>>) \o sync_memory_from_state(Tail(msgs))

\* lines 177-185: system messages first, then the last
\* max_history - len(system_messages) other messages
TrimKeep(n_sys) == max_history - n_sys

\* a trimming that keeps the oldest of the other messages
trim_messages_oldest(msgs) ==
    LET system_messages == SelectSeq(msgs, IsSystem)
        other_messages == SelectSeq(msgs, NotSystem)
    IN  system_messages \o SubSeq(other_messages, 1, TrimKeep(Len(system_messages)))

trim_messages(msgs) ==
    LET system_messages == SelectSeq(msgs, IsSystem)
        other_messages == SelectSeq(msgs, NotSystem)
    IN  system_messages \o PyLast(other_messages, TrimKeep(Len(system_messages)))

\* line 178: len(conversation_state.messages) > self.max_history
OverHistory_ge(n) == n >= max_history

OverHistory(n) == n > max_history

\* the roles add_message builds a message for (lines 153-161)
RoleAccepted(role) == role \in {"user", "assistant", "system"}

\* lines 143-146: the conversation is not stored: log and return False
UnknownConversation_true(convs, mems) == [ret |-> TRUE, convs |-> convs, mems |-> mems]

UnknownConversation(convs, mems) == [ret |-> FALSE, convs |-> convs, mems |-> mems]

\* lines 159-161: the role is none of user, assistant, system: log and
\* return False
UnsupportedRole(convs, mems) == [ret |-> FALSE, convs |-> convs, mems |-> mems]

\* add_message as a function of the two stores: what it returns and the
\* stores afterwards
\* an add_message that stores the conversation again when it is not stored
add_message_recreating(convs, mems, cid, role, content, mid) ==
    IF ~RoleAccepted(role) THEN UnsupportedRole(convs, mems)
    ELSE LET made == IF Exists(convs, cid) THEN [convs |-> convs, mems |-> mems]
                     ELSE [convs |-> (cid :> [employee_id |-> "e1", user_id |-> "u1",
                                              messages |-> <<>>,
                                              created_at |-> LaterNow,
                                              updated_at |-> LaterNow]) @@ convs,
                           mems |-> (cid :> <<>>) @@ mems]
             appended == Append(made.convs[cid].messages, Msg(role, content, mid))
             over == OverHistory(Len(appended))
             kept == IF over THEN trim_messages(appended) ELSE appended
         IN  [ret |-> TRUE,
              convs |-> [made.convs EXCEPT ![cid].messages = kept,
                                           ![cid].updated_at = LaterNow],
              mems |-> (cid :> sync_memory_from_state(kept)) @@ made.mems]

add_message(convs, mems, cid, role, content, mid) ==
    IF ~Exists(convs, cid) THEN UnknownConversation(convs, mems)
    ELSE IF ~RoleAccepted(role) THEN UnsupportedRole(convs, mems)
    ELSE LET appended == Append(convs[cid].messages, Msg(role, content, mid))
             mem1 == Append(mems[cid], LcMsg(role, content))
             over == OverHistory(Len(appended))
             kept == IF over THEN trim_messages(appended) ELSE appended
         IN  [ret |-> TRUE,
              convs |-> [convs EXCEPT ![cid].messages = kept,
                                      ![cid].updated_at = LaterNow],
              mems |-> (cid :> (IF over THEN sync_memory_from_state(kept) ELSE mem1))
                          @@ mems]

\* get_conversation_history(conversation_id, limit); limit None is 0 here,
\* which "if limit:" treats alike
get_conversation_history_first(convs, cid, limit) ==
    IF ~Exists(convs, cid) THEN <<>>
    ELSE IF limit # 0 THEN SubSeq(convs[cid].messages, 1, Min(limit, Len(convs[cid].messages)))
         ELSE convs[cid].messages

get_conversation_history(convs, cid, limit) ==
    IF ~Exists(convs, cid) THEN <<>>
    ELSE IF limit # 0 THEN PyLast(convs[cid].messages, limit)
         ELSE convs[cid].messages

\* get_conversation_messages(conversation_id, limit)
get_conversation_messages(mems, cid, limit) ==
    IF cid \notin DOMAIN mems THEN <<>>
    ELSE IF limit # 0 /\ limit > 0 THEN PyLast(mems[cid], limit)
         ELSE mems[cid]

\* get_conversation_state(conversation_id): the Optional result as a sequence
\* of at most one ConversationState
get_conversation_state(convs, cid) ==
    IF Exists(convs, cid) THEN <<convs[cid]>> ELSE <<>>

\* create_conversation as a function of the stores; cid is the fresh uuid4,
\* initial_system_message the Optional text as a sequence of at most one text
\* lines 99-110: the message list of the new ConversationState: empty, or
\* the initial system message when one is given
InitialMessages_none(initial_system_message) == <<>>

InitialMessages(initial_system_message) ==
    IF initial_system_message # <<>>
    THEN <<Msg("system", initial_system_message[1], 0)>> ELSE <<>>

create_conversation(convs, mems, cid, employee_id, user_id, initial_system_message) ==
    LET now == CreatedNow
        first == InitialMessages(initial_system_message)
        mem0 == IF initial_system_message # <<>>
                THEN <<LcMsg("system", initial_system_message[1])>> ELSE <<>>
    IN  [convs |-> (cid :> [employee_id |-> employee_id, user_id |-> user_id,
                            messages |-> first,
                            created_at |-> now, updated_at |-> now]) @@ convs,
         mems |-> (cid :> mem0) @@ mems]

\* delete_conversation: the memory entry goes with the state entry
Without(f, k) == [x \in DOMAIN f \ {k} |-> f[x]]

DeleteMemory_kept(mems, cid) == mems

DeleteMemory(mems, cid) == Without(mems, cid)

delete_conversation(convs, mems, cid) ==
    IF ~Exists(convs, cid)
    THEN [ret |-> FALSE, convs |-> convs, mems |-> mems]
    ELSE [ret |-> TRUE,
          convs |-> Without(convs, cid),
          mems |-> DeleteMemory(mems, cid)]

(***************************************************************************)
(* The manager's API as actions (SpecMem)                                  *)
(***************************************************************************)
CreateConversation(e, u, sysmsg) ==
    /\ next_conv < MaxConvs
    /\ LET cid == next_conv + 1
           r == create_conversation(conversations, memories, cid, e, u, sysmsg)
       IN  /\ conversations' = r.convs
           /\ memories' = r.mems
           /\ next_conv' = cid
           /\ log' = [log EXCEPT ![cid] = r.convs[cid].messages]
    /\ UNCHANGED <<employees, employee_agents, req, calls, del_rets, returned, executor_memory, compvars>>

\* content is the ordinal of the message in its conversation, so that every
\* stored message can be told apart from every other
RECURSIVE SumLen(_, _)
SumLen(f, S) ==
    IF S = {} THEN 0
    ELSE LET x == CHOOSE y \in S : TRUE IN Len(f[x]) + SumLen(f, S \ {x})

Logged == SumLen(log, DOMAIN log)

AddMessage(cid, role) ==
    /\ Logged < MaxAppends
    /\ LET content == IF cid \in DOMAIN log THEN Len(log[cid]) + 1 ELSE 1
           r == add_message(conversations, memories, cid, role, content, 0)
       IN  /\ conversations' = r.convs
           /\ memories' = r.mems
           /\ log' = IF r.ret
                     THEN [log EXCEPT ![cid] = Append(@, Msg(role, content, 0))]
                     ELSE log
    /\ UNCHANGED <<next_conv, employees, employee_agents, req, calls, del_rets, returned, executor_memory, compvars>>

DeleteConversation(cid) ==
    /\ Len(del_rets[cid]) < MaxDeletes
    /\ LET r == delete_conversation(conversations, memories, cid)
           held == Exists(conversations, cid) /\ conversations[cid].messages # <<>>
       IN  /\ conversations' = r.convs
           /\ memories' = r.mems
           /\ log' = IF r.ret THEN [log EXCEPT ![cid] = <<>>] ELSE log
           /\ del_rets' = [del_rets EXCEPT ![cid] =
                  Append(@, [existed |-> Exists(conversations, cid), held |-> held,
                             ret |-> r.ret])]
    /\ UNCHANGED <<next_conv, employees, employee_agents, req, calls, returned, executor_memory, compvars>>

(***************************************************************************)
(* BaseAgent.initialize and DigitalEmployeeAgent                           *)
(***************************************************************************)
\* _create_agent_config line 96: employee_config.get("max_iterations", 5);
\* the configuration _get_employee_config builds has no such key
AgentMaxIterations == DefaultMaxIterations

\* initialize: LLMChain without tools (lines 98-122), the ReAct AgentExecutor
\* with tools (lines 123-197); agent_executor stays None when initialize
\* raised (lines 201-204 and __init__ lines 57-60)
ExecutorFor(tools, init_ok) ==
    IF ~init_ok THEN "none"
    ELSE IF tools = <<>> THEN "chain" ELSE "react"

(***************************************************************************)
(* ModelManager: the model configuration of an agent build                 *)
(***************************************************************************)
\* the ModelProvider enumeration, and a string that is none of its values
ModelProviders == {"openai", "anthropic", "gemini", "local", "deepseek"}
ProviderInputs == {None, "openai", "local", "deepseek", "bogus"}
DEFAULT_MODEL_PROVIDER == "deepseek"
\* an Optional number is a sequence of at most one number, <<>> for None.
\* temperatures in tenths: below the range, its ends, the default, above it
Temperatures == {0 - 1, 0, MODEL_TEMPERATURE, 20, 21}
TemperatureInputs == {<<>>} \cup {<<t>> : t \in Temperatures}
MaxTokensInputs == {<<>>, <<0 - 5>>, <<0>>, <<1>>, <<100>>}
\* the providers whose API key the settings hold; a local model has none
KeySets == SUBSET {"openai", "deepseek"}

ModelConfig(provider, temperature, max_tokens) ==
    [provider |-> provider, temperature |-> temperature, max_tokens |-> max_tokens]

\* Python truthiness of an Optional[int]
Truthy(x) == x # <<>> /\ x[1] # 0

\* create_model_config_from_request line 333: ModelProvider(provider) raises
\* ValueError for a string that is not a provider
ProviderRaises(provider) == provider # None /\ provider \notin ModelProviders

\* create_model_config_from_request when it returns: the defaults replace a
\* provider that is not given, a temperature that is None, and a max_tokens
\* that is falsy
create_model_config_from_request(provider, temperature, max_tokens) ==
    ModelConfig(IF provider # None THEN provider ELSE DEFAULT_MODEL_PROVIDER,
                IF temperature # <<>> THEN temperature[1] ELSE MODEL_TEMPERATURE,
                IF Truthy(max_tokens) THEN max_tokens ELSE <<MODEL_MAX_TOKENS>>)

\* _get_api_key: the key of the provider, None when it has none
get_api_key(keys, provider) == IF provider \in keys THEN "key" ELSE None

\* validate_model_config
validate_model_config(keys, config) ==
    IF get_api_key(keys, config.provider) = None THEN FALSE
    ELSE IF config.temperature < 0 \/ config.temperature > 20 THEN FALSE
    ELSE IF Truthy(config.max_tokens) /\ config.max_tokens[1] < 1 THEN FALSE
    ELSE TRUE

\* the model overrides of a request: the model_config dict that
\* process_chat_message passes on, a key that is absent read as None
NoOverrides == [provider |-> None, temperature |-> <<>>, max_tokens |-> <<>>]

\* _get_or_create_employee_agent lines 256-265: the retrieval tool is attached
\* when the employee's knowledge_base_ids is non-empty
ToolsFor(knowledge_base_ids) ==
    IF knowledge_base_ids # <<>> THEN <<"knowledge_retrieval">> ELSE <<>>

\* _get_employee_config and line 260: the stored employee's knowledge_base_ids;
\* the default configuration of an unknown employee has none
EmployeeKbs(emps, employee_id) ==
    IF employee_id \in DOMAIN emps THEN emps[employee_id] ELSE <<>>

\* an agent whose chat model is built from the defaults alone
NewAgent_default_model(knowledge_base_ids, init_ok, config) ==
    [tools |-> ToolsFor(knowledge_base_ids),
     agent_executor |-> ExecutorFor(ToolsFor(knowledge_base_ids), init_ok),
     max_iterations |-> AgentMaxIterations,
     built_from |-> knowledge_base_ids,
     model |-> create_model_config_from_request(None, <<>>, <<>>)]

\* config is the ModelConfig of the chat model the agent keeps as its llm
NewAgent(knowledge_base_ids, init_ok, config) ==
    [tools |-> ToolsFor(knowledge_base_ids),
     agent_executor |-> ExecutorFor(ToolsFor(knowledge_base_ids), init_ok),
     max_iterations |-> AgentMaxIterations,
     built_from |-> knowledge_base_ids,
     model |-> config]

\* AgentExecutor._should_continue: iterations < max_iterations
ShouldContinue_le(iterations, max_iterations) == iterations <= max_iterations

ShouldContinue(iterations, max_iterations) == iterations < max_iterations

(***************************************************************************)
(* Response envelopes: the keys of the dict and the fields the properties  *)
(* read                                                                    *)
(***************************************************************************)
Envelope(success, code, keys, response) ==
    [success |-> success, code |-> code, keys |-> keys, response |-> response]

NoResult == Envelope(FALSE, "", {}, "")

\* DigitalEmployeeAgent._create_success_response
AgentSuccess(response) ==
    Envelope(TRUE, "", {"success", "message_id", "conversation_id", "employee_id",
                        "user_id", "original_message", "response",
                        "processing_time", "timestamp", "model_info", "metadata"},
             response)

\* an exception that left process_message would reach the except of
\* process_chat_message and come back as its envelope
AgentError_propagated ==
    Envelope(FALSE, "CHAT_SERVICE_ERROR",
             {"success", "error", "timestamp", "processing_time"}, "")

\* DigitalEmployeeAgent._create_error_response
AgentError ==
    Envelope(FALSE, "AGENT_ERROR", {"success", "error", "processing_time", "timestamp"}, "")

\* ChatService._create_validation_error
create_validation_error ==
    Envelope(FALSE, "VALIDATION_ERROR", {"success", "error", "timestamp"}, "")

\* ChatService._create_agent_error
create_agent_error ==
    Envelope(FALSE, "AGENT_ERROR", {"success", "error", "timestamp"}, "")

\* ChatService._create_error_response as the except branch calls it, with
\* processing_time given
create_error_response ==
    Envelope(FALSE, "CHAT_SERVICE_ERROR",
             {"success", "error", "timestamp", "processing_time"}, "")

\* process_chat_message line 129: result["total_processing_time"] = total_time
WithTotalTime(result) == [result EXCEPT !.keys = @ \cup {"total_processing_time"}]

(***************************************************************************)
(* ChatService.process_chat_message                                        *)
(***************************************************************************)
Messages == {"", " ", "hi"}

\* message.strip()
Strip(m) == IF m = " " THEN "" ELSE m

\* lines 64-68: "not message or not message.strip()", "not employee_id"
InputInvalid_employee_only(message, employee_id) == employee_id = ""

InputInvalid(message, employee_id) ==
    message = "" \/ Strip(message) = "" \/ employee_id = ""

\* line 99: result.get("success", False)
ShouldPersist_always(result) == TRUE

ShouldPersist_never(result) == FALSE

ShouldPersist(result) == result.success

Idle ==
    [pc |-> "idle", message |-> "", employee_id |-> "", conversation_id |-> 0,
     conv |-> 0, mid |-> 0,
     path |-> "none", max_iterations |-> 0,
     iterations |-> 0, tool_calls |-> 0, llm_calls |-> 0,
     add_rets |-> <<>>,
     model_config |-> NoOverrides,
     result |-> NoResult]

\* a ConversationBufferMemory as BaseAgent.initialize creates it, empty;
\* holders are the requests whose employee_agent is this agent
NewMemory == [holders |-> {}, buffer |-> <<>>]

\* process_chat_message line 82: the request r holds the agent
Held(mem, r) == [mem EXCEPT !.holders = @ \cup {r}]

\* the history that fills the prompt of a turn. chat_history is what
\* process_message read from the manager.
\*   fallback: the prompt is the system prompt and the message (lines 233-240)
\*   direct:   the inputs are {"input"}; the "history" placeholder of the
\*             prompt is filled by the chain's memory (Chain.prep_inputs)
\*   react:    the inputs are {"input", "chat_history"}; Chain.prep_inputs
\*             merges the memory's variables over the inputs, and the
\*             memory's key is "chat_history"
prep_inputs(path, chat_history, buffer) ==
    IF path = "fallback" THEN <<>> ELSE buffer

\* Chain.prep_outputs after a call that returned: memory.save_context appends
\* the input as a human message and the output as an AI message. The messages
\* carry the turn that produced them in mid.
save_context(buffer, message, response, mid) ==
    buffer \o <<Msg("user", message, mid), Msg("assistant", response, mid)>>

\* the executor memory after the turn q of request r got result from its
\* agent: saved when the executor returned (not in the fallback, not when it
\* raised), into the agent the turn holds. The cache may have dropped that
\* agent since, and hold none or another one.
AfterCall(mem, r, q, result) ==
    IF q.employee_id \in DOMAIN mem /\ r \in mem[q.employee_id].holders
    THEN [mem EXCEPT ![q.employee_id] =
              [holders |-> @.holders \ {r},
               buffer |-> IF result.success /\ q.path # "fallback"
                          THEN save_context(@.buffer, q.message, result.response, q.mid)
                          ELSE @.buffer]]
    ELSE mem

\* the two add_message calls in the other order
Persist_assistant_first(r, q, result) ==
    LET cid == q.conv
        a1 == add_message(conversations, memories, cid, "assistant", result.response, q.mid)
        a2 == add_message(a1.convs, a1.mems, cid, "user", q.message, q.mid)
        done == [q EXCEPT !.pc = "done", !.result = WithTotalTime(result)]
    IN  /\ executor_memory' = AfterCall(executor_memory, r, q, result)
        /\ IF ShouldPersist(result)
           THEN /\ conversations' = a2.convs
                /\ memories' = a2.mems
                /\ req' = [req EXCEPT ![r] = [done EXCEPT !.add_rets = <<a1.ret, a2.ret>>]]
           ELSE /\ req' = [req EXCEPT ![r] = done]
                /\ UNCHANGED <<conversations, memories>>

\* lines 98-136: after the agent returned, the two add_message calls (user,
\* then assistant) when the result is a success, and the return of the result.
\* q is the turn as the agent left it.
\* add_rets keeps what the two calls returned, which the code does not read.
Persist(r, q, result) ==
    LET cid == q.conv
        a1 == add_message(conversations, memories, cid, "user", q.message, q.mid)
        a2 == add_message(a1.convs, a1.mems, cid, "assistant", result.response, q.mid)
        done == [q EXCEPT !.pc = "done", !.result = WithTotalTime(result)]
    IN  /\ executor_memory' = AfterCall(executor_memory, r, q, result)
        /\ IF ShouldPersist(result)
           THEN /\ conversations' = a2.convs
                /\ memories' = a2.mems
                /\ req' = [req EXCEPT ![r] = [done EXCEPT !.add_rets = <<a1.ret, a2.ret>>]]
           ELSE /\ req' = [req EXCEPT ![r] = done]
                /\ UNCHANGED <<conversations, memories>>

\* a turn moves on without touching the manager
Continue(r, q) ==
    /\ req' = [req EXCEPT ![r] = q]
    /\ UNCHANGED <<conversations, memories, executor_memory>>

\* ChatService._get_or_create_conversation: a given id that is stored is
\* reused, whatever employee it is stored for (the mismatch is only logged);
\* otherwise a conversation is created for the request's employee and user.
\* next is the last identifier handed out.
get_or_create_conversation_rebound(convs, mems, next, conversation_id, employee_id, user_id) ==
    LET reuse == conversation_id # 0
                 /\ get_conversation_state(convs, conversation_id) # <<>>
        cid == IF reuse THEN conversation_id ELSE next + 1
        made == create_conversation(convs, mems, cid, employee_id, user_id, <<>>)
    IN  IF reuse
        THEN [conversation_id |-> cid, exists |-> TRUE,
              convs |-> [convs EXCEPT ![cid].employee_id = employee_id],
              mems |-> mems, next |-> next]
        ELSE [conversation_id |-> cid, exists |-> FALSE,
              convs |-> made.convs, mems |-> made.mems, next |-> cid]

\* a resolution that picks the new id and leaves the creation for later
get_or_create_conversation_deferred(convs, mems, next, conversation_id, employee_id, user_id) ==
    LET reuse == conversation_id # 0
                 /\ get_conversation_state(convs, conversation_id) # <<>>
        cid == IF reuse THEN conversation_id ELSE next + 1
    IN  [conversation_id |-> cid, exists |-> reuse,
         convs |-> convs, mems |-> mems, next |-> cid]

get_or_create_conversation(convs, mems, next, conversation_id, employee_id, user_id) ==
    LET reuse == conversation_id # 0
                 /\ get_conversation_state(convs, conversation_id) # <<>>
        cid == IF reuse THEN conversation_id ELSE next + 1
        made == create_conversation(convs, mems, cid, employee_id, user_id, <<>>)
    IN  IF reuse
        THEN [conversation_id |-> cid, exists |-> TRUE,
              convs |-> convs, mems |-> mems, next |-> next]
        ELSE [conversation_id |-> cid, exists |-> FALSE,
              convs |-> made.convs, mems |-> made.mems, next |-> cid]

\* _get_or_create_employee_agent lines 227-228: the cache check
Cached_never(agents, employee_id) == FALSE

Cached(agents, employee_id) == employee_id \in DOMAIN agents

\* process_message lines 148-149 and 178-183: the call an agent serves a
\* turn with: the fallback without an executor, the LLMChain without tools,
\* the AgentExecutor with tools
PathOf(agent) ==
    CASE agent.agent_executor = "none" -> "fallback"
      [] agent.agent_executor = "chain" -> "direct"
      [] OTHER -> "react"

\* process_chat_message up to its first await that suspends: validation,
\* _get_or_create_conversation, _get_or_create_employee_agent,
\* _prepare_context and the start of process_message.
\* env is what the call meets outside the two stores:
\*   "unbound"     the manager calls of lines 173, 188 and 361 (and
\*                 get_employee of line 304) pass a db session, which the
\*                 manager's methods (conversation_memory.py lines 57-64, 238,
\*                 251-255) do not take: the first such call raises TypeError,
\*                 which the except of line 138 catches. Every other value is
\*                 the same call made against services that take the session
\*                 (the calls of test_full_integration.py), with the in-memory
\*                 behaviour
\*   "invalid"     validate_model_config rejects the model configuration
\*   "raises"      building the model, the tool or the agent raises
\*   "init_fails"  BaseAgent.initialize raises and leaves no executor
\*   "ok"          the agent is built with its executor
\* "invalid", "raises" and "init_fails" matter only when the agent is built.
Envs == {"unbound", "invalid", "raises", "init_fails", "ok"}

Submit(r, message, employee_id, conversation_id, user_id, model_config, env) ==
    /\ req[r].pc = "idle"
    /\ calls < MaxTurns
    /\ calls' = calls + 1
    /\ LET start == [Idle EXCEPT !.message = message, !.employee_id = employee_id,
                                  !.conversation_id = conversation_id,
                                  !.model_config = model_config,
                                  !.mid = calls + 1]
       IN
       IF InputInvalid(message, employee_id)
       THEN /\ req' = [req EXCEPT ![r] =
                         [start EXCEPT !.pc = "done", !.result = create_validation_error]]
            /\ UNCHANGED <<conversations, memories, next_conv, employee_agents,
                           executor_memory>>
       ELSE IF env = "unbound"
       THEN /\ req' = [req EXCEPT ![r] =
                         [start EXCEPT !.pc = "done", !.result = create_error_response]]
            /\ UNCHANGED <<conversations, memories, next_conv, employee_agents,
                           executor_memory>>
       ELSE
         LET conversation_info ==
                 get_or_create_conversation(conversations, memories, next_conv,
                                            conversation_id, employee_id, user_id)
             cid == conversation_info.conversation_id
             cached == Cached(employee_agents, employee_id)
             build_ok == env \notin {"invalid", "raises"}
             agent == IF cached THEN employee_agents[employee_id]
                      ELSE NewAgent(EmployeeKbs(employees, employee_id),
                                    env # "init_fails",
                                    create_model_config_from_request(
                                        model_config.provider,
                                        model_config.temperature,
                                        model_config.max_tokens))
             path == PathOf(agent)
             resolved == [start EXCEPT !.conv = cid]
         IN  /\ conversation_info.exists \/ next_conv < MaxConvs
             /\ conversations' = conversation_info.convs
             /\ memories' = conversation_info.mems
             /\ next_conv' = conversation_info.next
             /\ IF ~cached /\ ~build_ok
                THEN UNCHANGED <<employee_agents, executor_memory>>
                ELSE /\ employee_agents' = (employee_id :> agent) @@ employee_agents
                     /\ executor_memory' =
                            (employee_id :> Held(IF cached THEN executor_memory[employee_id]
                                                 ELSE NewMemory, r))
                            @@ executor_memory
             /\ IF ~cached /\ ~build_ok
                THEN req' = [req EXCEPT ![r] =
                               [resolved EXCEPT !.pc = "done",
                                                !.result = create_agent_error]]
                ELSE req' = [req EXCEPT ![r] =
                               [resolved EXCEPT !.pc = "llm",
                                                !.path = path,
                                                !.max_iterations = agent.max_iterations]]
    /\ UNCHANGED <<employees, log, del_rets, returned, compvars>>

\* AgentExecutor: the iteration just made (a tool run or a parse error fed back
\* as an observation) is counted; the loop goes on while _should_continue,
\* else the executor returns its stopped response, which process_message
\* returns as a success
AfterIteration(r, q) ==
    LET q1 == [q EXCEPT !.iterations = @ + 1] IN
    IF ShouldContinue(q1.iterations, q1.max_iterations)
    THEN Continue(r, [q1 EXCEPT !.pc = "llm"])
    ELSE Persist(r, q1, AgentSuccess("stopped"))

\* the pending model call of a turn returns.
\*   direct / fallback: LLMChain.ainvoke (process_message line 186) or
\*     llm.ainvoke (_fallback_to_direct_llm line 243): a text, or an exception
\*     that process_message turns into an error result
\*   react: one AgentExecutor iteration plans with the model: a final answer
\*     ends the loop; an action invokes the tool; output that does not parse
\*     is fed back as an observation (handle_parsing_errors=True) and counts
\*     as an iteration; an exception ends the turn with an error result
LlmReturn(r, out) ==
    /\ req[r].pc = "llm"
    /\ LET q == [req[r] EXCEPT !.llm_calls = @ + 1] IN
       CASE out = "error" -> Persist(r, q, AgentError)
         [] out = "final" -> Persist(r, q, AgentSuccess("answer"))
         [] out = "action" ->
              /\ q.path = "react"
              /\ Continue(r, [q EXCEPT !.pc = "tool", !.tool_calls = @ + 1])
         [] out = "malformed" ->
              /\ q.path = "react"
              /\ AfterIteration(r, q)
    /\ UNCHANGED <<next_conv, employees, employee_agents, calls, log, del_rets, returned, compvars>>

\* the retrieval tool invoked by the executor returns its text (_arun), or
\* raises (next(get_db()) of _async_retrieve is outside its try), which ends
\* the turn with an error result
ToolReturn(r, ok) ==
    /\ req[r].pc = "tool"
    /\ IF ok THEN AfterIteration(r, req[r])
       ELSE Persist(r, req[r], AgentError)
    /\ UNCHANGED <<next_conv, employees, employee_agents, calls, log, del_rets, returned, compvars>>

\* the caller has the envelope; the slot serves the next request
Return(r) ==
    /\ req[r].pc = "done"
    /\ req' = [req EXCEPT ![r] = Idle]
    /\ UNCHANGED <<conversations, memories, next_conv, employees, employee_agents,
                   calls, log, del_rets, returned, executor_memory, compvars>>

\* DELETE /conversations/{id} (chat.py delete_conversation): 404 when the
\* conversation is not stored, 403 when the requester is not its user_id,
\* else the manager's delete_conversation
DeleteAllowed_any(convs, cid, user) == get_conversation_state(convs, cid) # <<>>

DeleteAllowed(convs, cid, user) ==
    /\ get_conversation_state(convs, cid) # <<>>
    /\ convs[cid].user_id = user

DeleteEndpoint(cid, user) ==
    /\ IF DeleteAllowed(conversations, cid, user)
       THEN LET r == delete_conversation(conversations, memories, cid)
            IN  /\ conversations' = r.convs
                /\ memories' = r.mems
       ELSE UNCHANGED <<conversations, memories>>
    /\ UNCHANGED <<next_conv, employees, employee_agents, req, calls, log, del_rets, returned, executor_memory, compvars>>

\* what a client of the manager or of the endpoint saw last
NoCall == [op |-> "none", id |-> 0, arg |-> "", ret |-> ""]

PyBool(b) == IF b THEN "True" ELSE "False"

\* a client calls add_message and keeps what it returned
AddMessageCall(cid, role) ==
    /\ Logged < MaxApiAppends
    /\ LET content == IF cid \in DOMAIN log THEN Len(log[cid]) + 1 ELSE 1
           r == add_message(conversations, memories, cid, role, content, 0)
       IN  /\ conversations' = r.convs
           /\ memories' = r.mems
           /\ log' = IF r.ret /\ cid \in DOMAIN log
                     THEN [log EXCEPT ![cid] = Append(@, Msg(role, content, 0))]
                     ELSE log
           /\ returned' = [op |-> "add_message", id |-> cid, arg |-> role,
                           ret |-> PyBool(r.ret)]
    /\ UNCHANGED <<next_conv, employees, employee_agents, req, calls, del_rets, executor_memory, compvars>>

\* the status of the response of DELETE /conversations/{id}: 404, 403, and
\* after the manager's delete_conversation 200 or 500
DeleteStatus(convs, mems, cid, user) ==
    IF get_conversation_state(convs, cid) = <<>> THEN "404"
    ELSE IF ~DeleteAllowed(convs, cid, user) THEN "403"
    ELSE IF delete_conversation(convs, mems, cid).ret THEN "200"
    ELSE "500"

\* a client sends the delete request as user and keeps the status
DeleteEndpointCall(cid, user) ==
    /\ IF DeleteAllowed(conversations, cid, user)
       THEN LET r == delete_conversation(conversations, memories, cid)
            IN  /\ conversations' = r.convs
                /\ memories' = r.mems
                /\ log' = IF r.ret THEN [log EXCEPT ![cid] = <<>>] ELSE log
       ELSE UNCHANGED <<conversations, memories, log>>
    /\ returned' = [op |-> "delete", id |-> cid, arg |-> user,
                    ret |-> DeleteStatus(conversations, memories, cid, user)]
    /\ UNCHANGED <<next_conv, employees, employee_agents, req, calls, del_rets, executor_memory, compvars>>

\* the employee store changes an employee's knowledge_base_ids
\* (EmployeeService.update_employee); the agent cache is not told
UpdateEmployee(e, kbs) ==
    /\ employees[e] # kbs
    /\ employees' = [employees EXCEPT ![e] = kbs]
    /\ UNCHANGED <<conversations, memories, next_conv, employee_agents, req, calls,
                   log, del_rets, returned, executor_memory, compvars>>

\* ChatService.clear_employee_agents
ClearEmployeeAgents ==
    /\ employee_agents # <<>>
    /\ employee_agents' = <<>>
    /\ executor_memory' = <<>>
    /\ UNCHANGED <<conversations, memories, next_conv, employees, req, calls,
                   log, del_rets, returned, compvars>>

(***************************************************************************)
(* ChatDeepSeek._agenerate under retry_with_backoff                        *)
(***************************************************************************)
\* what one attempt can raise. An HTTP status other than 200 is raised as
\* ValueError("DeepSeek API 错误: {status} - {body}") (lines 299-303); the
\* transport raises its own errors for a failed connection and for the
\* timeout. phrase is the no-retry phrase the lower-cased message contains,
\* "" when it contains none: the body of an error response is the server's
\* text, so any status can come with any of them; the messages of the
\* transport's connection error and of asyncio.TimeoutError contain none.
NoRetryPhrases == {"invalid api key", "authentication", "unauthorized",
                   "bad request", "invalid request"}
HttpStatuses == {"400", "401", "404", "422", "429", "500", "503"}
Phrases == {"", "authentication", "bad request"}
AttemptErrors ==
    {[status |-> "network", phrase |-> ""], [status |-> "timeout", phrase |-> ""]}
    \cup [status : HttpStatuses, phrase : Phrases]
NoError == [status |-> "", phrase |-> ""]

\* async_wrapper lines 44-56: any(err in error_str for err in [...])
NoRetry(e) == e.phrase \in NoRetryPhrases

\* line 64: min(base_delay * (2 ** attempt), max_delay), before the jitter
\* factor of line 68
BackoffDelay(attempt) == Min(base_delay * (2 ^ attempt), max_delay)

RetryIdle == [pc |-> "idle", attempt |-> 0, errors |-> <<>>, delays |-> <<>>,
              raised |-> NoError]

\* the model client is called: async_wrapper enters its loop and makes the
\* first attempt
Agenerate ==
    /\ retry.pc = "idle"
    /\ retry' = [retry EXCEPT !.pc = "calling"]
    /\ UNCHANGED <<appvars, retrieval, model_build, tables, kb_tables, hiring>>

\* the pending attempt ends: with a result, which async_wrapper returns, or
\* with an error, which it raises again when the message has a no-retry
\* phrase or this was the last attempt, and otherwise sleeps on
AttemptReturns(ok, e) ==
    /\ retry.pc = "calling"
    /\ IF ok
       THEN retry' = [retry EXCEPT !.pc = "returned"]
       ELSE LET seen == [retry EXCEPT !.errors = Append(@, e)] IN
            IF NoRetry(e) \/ retry.attempt = max_retries - 1
            THEN retry' = [seen EXCEPT !.pc = "raised", !.raised = e]
            ELSE retry' = [seen EXCEPT !.pc = "sleeping",
                                       !.delays = Append(@, BackoffDelay(retry.attempt))]
    /\ UNCHANGED <<appvars, retrieval, model_build, tables, kb_tables, hiring>>

\* asyncio.sleep(delay) returns: the loop makes the next attempt
SleepReturns ==
    /\ retry.pc = "sleeping"
    /\ retry' = [retry EXCEPT !.pc = "calling", !.attempt = @ + 1]
    /\ UNCHANGED <<appvars, retrieval, model_build, tables, kb_tables, hiring>>

(***************************************************************************)
(* KnowledgeRetrievalTool over KnowledgeService                            *)
(***************************************************************************)
\* KnowledgeService._knowledge_bases after _init_sample_data: two of the
\* sample knowledge bases, the public kb1 and the private kb2
knowledge_bases ==
    [kb \in {"kb1", "kb2"} |->
        IF kb = "kb1"
        THEN [is_public |-> TRUE, created_by |-> "admin", read |-> {"*"}]
        ELSE [is_public |-> FALSE, created_by |-> "product-manager",
              read |-> {"product-manager", "admin"}]]
\* the ids an employee's knowledge_base_ids can hold: stored ones and one
\* that is not stored
KbIdSet == {"kb1", "kb2", "kb9"}
KbIdLists == UNION {[1..n -> KbIdSet] : n \in 0..MaxKbIds}
\* the session object next(get_db()) yields
DbSession == "db"

\* _check_permission(kb_id, user_id, "read")
check_permission(bases, kb_id, user_id) ==
    /\ kb_id \in DOMAIN bases
    /\ \/ bases[kb_id].is_public
       \/ bases[kb_id].created_by = user_id
       \/ "*" \in bases[kb_id].read
       \/ user_id \in bases[kb_id].read

\* KnowledgeService.get_knowledge_base(kb_id, user_id=None): the stored base
\* under the key kb_id, None when there is none or user_id may not read it.
\* failing is the set of keys whose lookup raises.
get_knowledge_base(bases, failing, kb_id, user_id) ==
    IF kb_id \in failing THEN "raises"
    ELSE IF kb_id \notin DOMAIN bases THEN None
    ELSE IF user_id # None /\ ~check_permission(bases, kb_id, user_id) THEN None
    ELSE kb_id

\* _async_retrieve line 110: knowledge_service.get_knowledge_base(db, kb_id);
\* the method takes (kb_id, user_id), so the session is the key that is looked
\* up and the id is the user
LookupBase(bases, failing, db, kb_id) ==
    get_knowledge_base(bases, failing, db, kb_id)

\* one round of the loop of _async_retrieve, lines 109-128: what it appends
\* to results for kb_id
EntriesFor(bases, failing, db, kb_id) ==
    LET kb == LookupBase(bases, failing, db, kb_id) IN
    IF kb = "raises" THEN <<[kb |-> kb_id, kind |-> "error"]>>
    ELSE IF kb # None THEN <<[kb |-> kb, kind |-> "content"]>>
    ELSE <<>>

RetrievalIdle == [pc |-> "idle", kb_ids |-> <<>>, failing |-> {}, i |-> 0,
                  results |-> <<>>, text |-> None]

\* _arun: the fixed answer for an empty id list, else _async_retrieve, which
\* takes a session and enters its loop
Arun(kb_ids, failing) ==
    /\ retrieval.pc = "idle"
    /\ retrieval' = IF kb_ids = <<>>
                    THEN [retrieval EXCEPT !.pc = "returned", !.text = "no_kb_specified"]
                    ELSE [retrieval EXCEPT !.pc = "looking", !.kb_ids = kb_ids,
                                           !.failing = failing]
    /\ UNCHANGED <<appvars, retry, model_build, tables, kb_tables, hiring>>

\* the awaits of one round of the loop return
LookupReturns ==
    /\ retrieval.pc = "looking"
    /\ retrieval.i < Len(retrieval.kb_ids)
    /\ retrieval' = [retrieval EXCEPT
            !.i = @ + 1,
            !.results = @ \o EntriesFor(knowledge_bases, retrieval.failing, DbSession,
                                        retrieval.kb_ids[retrieval.i + 1])]
    /\ UNCHANGED <<appvars, retry, model_build, tables, kb_tables, hiring>>

\* lines 130-138: after the loop, the text built from results
RetrieveReturns ==
    /\ retrieval.pc = "looking"
    /\ retrieval.i = Len(retrieval.kb_ids)
    /\ retrieval' = [retrieval EXCEPT
            !.pc = "returned",
            !.text = IF retrieval.results = <<>> THEN "no_kb_found" ELSE "retrieved"]
    /\ UNCHANGED <<appvars, retry, model_build, tables, kb_tables, hiring>>

(***************************************************************************)
(* ModelManager: one agent build on its own (SpecModel)                    *)
(***************************************************************************)
NoBuild == [pc |-> "idle", keys |-> {}, request |-> ModelConfig(None, <<>>, <<>>),
            raised |-> FALSE, config |-> ModelConfig(None, 0, <<>>),
            valid |-> FALSE, outcome |-> None]

\* validate_model_config applied to a ModelConfig
ValidateModelConfig(keys, config) ==
    /\ model_build.pc = "idle"
    /\ model_build' = [model_build EXCEPT
            !.pc = "validated", !.keys = keys, !.config = config,
            !.valid = validate_model_config(keys, config)]
    /\ UNCHANGED <<appvars, retry, retrieval, tables, kb_tables, hiring>>

\* _get_or_create_employee_agent lines 231-282 for an employee without a
\* cached agent: the ModelConfig of the request's overrides, its validation,
\* then the model, the tools and the agent; None (the caller's agent error)
\* when the configuration is rejected or anything raises
BuildAgent(keys, request, build_ok) ==
    /\ model_build.pc = "idle"
    /\ LET raised == ProviderRaises(request.provider)
           config == create_model_config_from_request(
                         request.provider, request.temperature, request.max_tokens)
           valid == ~raised /\ validate_model_config(keys, config)
       IN  model_build' = [model_build EXCEPT
               !.pc = "requested", !.keys = keys, !.request = request,
               !.raised = raised,
               !.config = IF raised THEN @ ELSE config, !.valid = valid,
               !.outcome = IF valid /\ build_ok THEN "built" ELSE "agent_error"]
    /\ UNCHANGED <<appvars, retry, retrieval, tables, kb_tables, hiring>>

(***************************************************************************)
(* ConversationRepository over the conversations and messages tables       *)
(***************************************************************************)
RepoConvIds == {"conv1", "conv2"}
\* a message dict given to the repository: one the table takes, or one whose
\* insert raises at the commit (a NOT NULL column left out, an id in use)
RowInputs == {"ok", "bad"}
RowLists == UNION {[1..n -> RowInputs] : n \in 1..MaxBatch}

EmptyDb == [conversations |-> <<>>, messages |-> <<>>, raised |-> FALSE]

\* db.query(Message).filter(Message.conversation_id == id).count()
CountRows(messages, conversation_id) ==
    Cardinality({i \in 1..Len(messages) : messages[i] = conversation_id})

\* BaseRepository.create for Message: add, commit, refresh. The commit raises
\* for a row the table rejects, and for a conversation_id that is no row of
\* conversations (the foreign key); a row that is committed stays.
CreateRaises(d, conversation_id, row) ==
    row = "bad" \/ conversation_id \notin DOMAIN d.conversations

msg_repo_create(d, conversation_id, row) ==
    IF CreateRaises(d, conversation_id, row) THEN d
    ELSE [d EXCEPT !.messages = Append(@, conversation_id)]

\* update_message_count: the count of the rows, written to the conversation
\* when it exists
update_message_count(d, conversation_id) ==
    IF conversation_id \in DOMAIN d.conversations
    THEN [d EXCEPT !.conversations[conversation_id].message_count =
                        CountRows(d.messages, conversation_id)]
    ELSE d

\* create_messages lines 166-169: the rows are created one by one, each with
\* its own commit, until one raises. The result is the database and whether
\* the loop raised.
RECURSIVE create_rows(_, _, _)
create_rows(d, conversation_id, rows) ==
    IF rows = <<>> THEN [db |-> d, raised |-> FALSE]
    ELSE IF CreateRaises(d, conversation_id, Head(rows)) THEN [db |-> d, raised |-> TRUE]
    ELSE create_rows(msg_repo_create(d, conversation_id, Head(rows)),
                     conversation_id, Tail(rows))

\* create_conversation(db, obj_in) for a new id: message_count is the
\* column's default
RepoCreateConversation(conversation_id) ==
    /\ conversation_id \notin DOMAIN tables.conversations
    /\ tables' = [tables EXCEPT !.conversations = (conversation_id :> [message_count |-> 0]) @@ @,
                        !.raised = FALSE]
    /\ UNCHANGED <<appvars, retry, retrieval, model_build, kb_tables, hiring>>

\* create_message: the row, then the count; the count is not reached when
\* the create raised
RepoCreateMessage(conversation_id, row) ==
    /\ Len(tables.messages) < MaxRows
    /\ tables' = IF CreateRaises(tables, conversation_id, row)
             THEN [tables EXCEPT !.raised = TRUE]
             ELSE [update_message_count(msg_repo_create(tables, conversation_id, row),
                                        conversation_id)
                      EXCEPT !.raised = FALSE]
    /\ UNCHANGED <<appvars, retry, retrieval, model_build, kb_tables, hiring>>

\* create_messages: the rows, then the count; the count is not reached when
\* a create raised
RepoCreateMessages(conversation_id, rows) ==
    /\ Len(tables.messages) + Len(rows) <= MaxRows
    /\ LET made == create_rows(tables, conversation_id, rows) IN
       tables' = IF made.raised
             THEN [made.db EXCEPT !.raised = TRUE]
             ELSE [update_message_count(made.db, conversation_id) EXCEPT !.raised = FALSE]
    /\ UNCHANGED <<appvars, retry, retrieval, model_build, kb_tables, hiring>>

(***************************************************************************)
(* KnowledgeRepository over the knowledge_bases and knowledge_items tables *)
(***************************************************************************)
KbRepoIds == {"kb1", "kb2"}
ItemIds == 1..MaxItems

\* items maps the id of each knowledge_items row to its knowledge_base_id;
\* next_item is the last id handed out
EmptyKbTables == [bases |-> <<>>, items |-> <<>>, next_item |-> 0, raised |-> FALSE]

\* db.query(KnowledgeItem).filter(KnowledgeItem.knowledge_base_id == kb_id).count()
CountItems(items, kb_id) == Cardinality({i \in DOMAIN items : items[i] = kb_id})

\* BaseRepository.create for KnowledgeItem: the commit raises for a row the
\* table rejects and for a knowledge_base_id that is no row of knowledge_bases
ItemCreateRaises(t, kb_id, row) == row = "bad" \/ kb_id \notin DOMAIN t.bases

\* create_items lines 117-122: the rows are created one by one, each with its
\* own commit, until one raises
RECURSIVE create_item_rows(_, _, _)
create_item_rows(t, kb_id, rows) ==
    IF rows = <<>> THEN [t EXCEPT !.raised = FALSE]
    ELSE IF ItemCreateRaises(t, kb_id, Head(rows)) THEN [t EXCEPT !.raised = TRUE]
    ELSE create_item_rows([t EXCEPT !.items = (t.next_item + 1 :> kb_id) @@ @,
                                    !.next_item = @ + 1],
                          kb_id, Tail(rows))

\* create_items lines 125-131: the count of the rows, written to the
\* knowledge base when it exists
recount_items(t, kb_id) ==
    IF kb_id \in DOMAIN t.bases
    THEN [t EXCEPT !.bases[kb_id].doc_count = CountItems(t.items, kb_id)]
    ELSE t

\* delete_item line 142: item_repo.delete(db, id=item_id) deletes the row with
\* that id, whatever knowledge base it belongs to
DeletedItem(t, kb_id, item_id) == item_id \in DOMAIN t.items

\* delete_item lines 145-148: kb.doc_count = max(0, kb.doc_count - 1) for the
\* knowledge base the caller named
decrement_doc_count(t, kb_id) ==
    IF kb_id \in DOMAIN t.bases
    THEN [t EXCEPT !.bases[kb_id].doc_count = Max(0, @ - 1)]
    ELSE t

\* create_kb for a new id: doc_count is the column's default
KbRepoCreateKb(kb_id) ==
    /\ kb_id \notin DOMAIN kb_tables.bases
    /\ kb_tables' = [kb_tables EXCEPT !.bases = (kb_id :> [doc_count |-> 0]) @@ @,
                                      !.raised = FALSE]
    /\ UNCHANGED <<appvars, retry, retrieval, model_build, tables, hiring>>

\* create_items: the rows, then the recount, which is not reached when a
\* create raised
CreateItems(kb_id, rows) ==
    /\ kb_tables.next_item + Len(rows) <= MaxItems
    /\ LET made == create_item_rows(kb_tables, kb_id, rows) IN
       kb_tables' = IF made.raised THEN made ELSE recount_items(made, kb_id)
    /\ UNCHANGED <<appvars, retry, retrieval, model_build, tables, hiring>>

\* delete_item(db, kb_id, item_id)
DeleteItem(kb_id, item_id) ==
    /\ kb_tables' =
         IF DeletedItem(kb_tables, kb_id, item_id)
         THEN decrement_doc_count([kb_tables EXCEPT !.items = Without(@, item_id),
                                                    !.raised = FALSE], kb_id)
         ELSE [kb_tables EXCEPT !.raised = FALSE]
    /\ UNCHANGED <<appvars, retry, retrieval, model_build, tables, hiring>>

\* clear_items(db, kb_id): the rows of the knowledge base are deleted and its
\* doc_count is set to 0
ClearItems(kb_id) ==
    /\ kb_tables' =
         LET kept == [i \in {j \in DOMAIN kb_tables.items : kb_tables.items[j] # kb_id}
                        |-> kb_tables.items[i]]
         IN  IF kb_id \in DOMAIN kb_tables.bases
             THEN [kb_tables EXCEPT !.items = kept, !.bases[kb_id].doc_count = 0,
                                    !.raised = FALSE]
             ELSE [kb_tables EXCEPT !.items = kept, !.raised = FALSE]
    /\ UNCHANGED <<appvars, retry, retrieval, model_build, tables, hiring>>

(***************************************************************************)
(* EmployeeService.hire_employee over the employee store of the service    *)
(***************************************************************************)
\* emp_003 is the sample employee with hire_count 0, emp_new one made by
\* create_employee, emp_none an id that is never stored
HireEmployeeIds == {"emp_003", "emp_new", "emp_none"}

\* how a caller writes the call: with the parameters of the signature
\* (employee_id, organization_id), or with the keywords db and user_id as the
\* hire endpoint and test_hire_employee write it
CallForms == {"signature", "keywords"}

\* the fields of an employee record that hire_employee reads and writes
EmployeeRecord(hire_count, is_hired) ==
    [hire_count |-> hire_count, is_hired |-> is_hired, is_recruited |-> is_hired]

NoHire == [form |-> "none", user |-> "none", employee_id |-> "none",
           result |-> "none", before |-> 0, had_hired |-> FALSE]

\* _init_sample_employees: the sample with no hire so far; hired is the set
\* of pairs of a user and an employee with a hire_employee call that
\* returned a response
HiringInit == [employees |-> ("emp_003" :> EmployeeRecord(0, FALSE)),
               hired |-> {}, last |-> NoHire]

\* Python binds the arguments before the body runs: hire_employee has no
\* parameter db and no parameter user_id
BindingRaises(form) == form = "keywords"

\* hire_employee lines 446-465 on a bound call: None for an id that is not
\* stored, otherwise the record is marked hired, its hire_count goes up by
\* one and the response is made of it
hire_employee(records, employee_id) ==
    IF employee_id \notin DOMAIN records
    THEN [employees |-> records, result |-> "None"]
    ELSE [employees |-> [records EXCEPT ![employee_id] =
                            EmployeeRecord(@.hire_count + 1, TRUE)],
          result |-> "EmployeeResponse"]

\* create_employee: a new record with hire_count 0
HireCreateEmployee ==
    /\ "emp_new" \notin DOMAIN hiring.employees
    /\ hiring' = [hiring EXCEPT !.employees = ("emp_new" :> EmployeeRecord(0, FALSE)) @@ @]
    /\ UNCHANGED <<appvars, retry, retrieval, model_build, tables, kb_tables>>

\* one hire_employee call by a user
HireEmployee(form, user, employee_id) ==
    /\ employee_id \in DOMAIN hiring.employees
         => hiring.employees[employee_id].hire_count < MaxHires
    /\ LET out == IF BindingRaises(form)
                  THEN [employees |-> hiring.employees, result |-> "raises"]
                  ELSE hire_employee(hiring.employees, employee_id)
       IN  hiring' =
             [employees |-> out.employees,
              hired |-> IF out.result = "EmployeeResponse"
                        THEN hiring.hired \cup {<<user, employee_id>>}
                        ELSE hiring.hired,
              last |-> [form |-> form, user |-> user, employee_id |-> employee_id,
                        result |-> out.result,
                        before |-> IF employee_id \in DOMAIN hiring.employees
                                   THEN hiring.employees[employee_id].hire_count
                                   ELSE 0,
                        had_hired |-> <<user, employee_id>> \in hiring.hired]]
    /\ UNCHANGED <<appvars, retry, retrieval, model_build, tables, kb_tables>>

(***************************************************************************)
(* Initial state and the specifications                                *)
(***************************************************************************)
InitMem ==
    /\ conversations = <<>>
    /\ memories = <<>>
    /\ next_conv = 0
    /\ log = [c \in ConvIds |-> <<>>]
    /\ del_rets = [c \in AnyConvIds |-> <<>>]
    /\ returned = NoCall

Init ==
    /\ InitMem
    /\ employees = ("e1" :> <<"kb1">>) @@ ("e2" :> <<>>)
    /\ employee_agents = <<>>
    /\ req = [r \in Reqs |-> Idle]
    /\ calls = 0
    /\ executor_memory = <<>>
    /\ retry = RetryIdle
    /\ retrieval = RetrievalIdle
    /\ model_build = NoBuild
    /\ tables = EmptyDb
    /\ hiring = HiringInit
    /\ kb_tables = EmptyKbTables

\* the initial_system_message argument: None, or a text
InitialSystemMessages == {<<>>, <<0>>}

NextMem ==
    \/ \E s \in InitialSystemMessages : CreateConversation("e1", "u1", s)
    \/ \E c \in KnownIds, role \in Roles : AddMessage(c, role)
    \/ \E c \in KnownIds : DeleteConversation(c)

SpecMem == Init /\ [][NextMem]_vars

\* the clients of the manager and of the delete endpoint, two users, each
\* call's return value kept
NextApi ==
    \/ \E u \in UserIds : CreateConversation("e1", u, <<>>)
    \/ \E c \in KnownIds, role \in Roles : AddMessageCall(c, role)
    \/ \E c \in KnownIds, u \in UserIds : DeleteEndpointCall(c, u)

SpecApi == Init /\ [][NextApi]_vars

\* one call of the model client, every outcome of every attempt
NextRetry ==
    \/ Agenerate
    \/ \E ok \in BOOLEAN, e \in AttemptErrors : AttemptReturns(ok, e)
    \/ SleepReturns

SpecRetry == Init /\ [][NextRetry]_vars

\* one run of the retrieval tool, for every id list and every set of ids
\* whose lookup raises
NextKb ==
    \/ \E kb_ids \in KbIdLists, failing \in SUBSET KbIdSet : Arun(kb_ids, failing)
    \/ LookupReturns
    \/ RetrieveReturns

SpecKb == Init /\ [][NextKb]_vars

\* one validation of a configuration, or one agent build from a request's
\* overrides
ConfigInputs == {ModelConfig(p, t, m) : p \in ModelProviders \ {"anthropic", "gemini"},
                                        t \in Temperatures,
                                        m \in MaxTokensInputs}
RequestInputs == {ModelConfig(p, t, m) : p \in ProviderInputs, t \in TemperatureInputs,
                                         m \in MaxTokensInputs}
NextModel ==
    \/ \E keys \in KeySets, config \in ConfigInputs : ValidateModelConfig(keys, config)
    \/ \E keys \in KeySets, request \in RequestInputs, build_ok \in BOOLEAN :
            BuildAgent(keys, request, build_ok)

SpecModel == Init /\ [][NextModel]_vars

\* any sequence of repository calls
NextRepo ==
    \/ \E c \in RepoConvIds : RepoCreateConversation(c)
    \/ \E c \in RepoConvIds, row \in RowInputs : RepoCreateMessage(c, row)
    \/ \E c \in RepoConvIds, rows \in RowLists : RepoCreateMessages(c, rows)

SpecRepo == Init /\ [][NextRepo]_vars

\* any sequence of knowledge repository calls, delete_item with any pair of a
\* knowledge base id and an item id
NextKbRepo ==
    \/ \E kb \in KbRepoIds : KbRepoCreateKb(kb)
    \/ \E kb \in KbRepoIds, rows \in RowLists : CreateItems(kb, rows)
    \/ \E kb \in KbRepoIds, i \in ItemIds : DeleteItem(kb, i)
    \/ \E kb \in KbRepoIds : ClearItems(kb)

SpecKbRepo == Init /\ [][NextKbRepo]_vars

\* hire_employee calls by two users, in either way of writing the call
NextHire ==
    \/ HireCreateEmployee
    \/ \E f \in CallForms, u \in UserIds, e \in HireEmployeeIds : HireEmployee(f, u, e)

SpecHire == Init /\ [][NextHire]_vars

\* the overrides a request can carry: none, the two of the chat endpoint,
\* a provider
OverrideInputs ==
    {NoOverrides,
     [provider |-> None, temperature |-> <<0>>, max_tokens |-> <<100>>],
     [provider |-> "openai", temperature |-> <<20>>, max_tokens |-> <<>>]}

\* chat turns of two employees that carry model overrides, one after the
\* other, and the cache being cleared
NextOverrides ==
    \/ \E e \in EmpIds, c \in KnownIds, o \in OverrideInputs, env \in {"invalid", "ok"} :
            Submit(1, "hi", e, c, "u1", o, env)
    \/ \E out \in {"final", "error"} : LlmReturn(1, out)
    \/ Return(1)
    \/ ClearEmployeeAgents

SpecOverrides == Init /\ [][NextOverrides]_vars

KbLists == {<<>>, <<"kb1">>}
LlmOutputs == {"final", "action", "malformed", "error"}

Next ==
    \/ \E r \in SeqReqs, m \in Messages, e \in EmpIds \cup {""}, c \in KnownIds,
          env \in Envs :
            Submit(r, m, e, c, "u1", NoOverrides, env)
    \/ \E r \in SeqReqs, out \in LlmOutputs : LlmReturn(r, out)
    \/ \E r \in SeqReqs, ok \in BOOLEAN : ToolReturn(r, ok)
    \/ \E r \in SeqReqs : Return(r)
    \/ \E c \in KnownIds, u \in UserIds : DeleteEndpoint(c, u)
    \/ \E kbs \in KbLists : UpdateEmployee("e1", kbs)
    \/ ClearEmployeeAgents

Spec == Init /\ [][Next]_vars

\* concurrent requests for one employee: two turns in flight at once,
\* interleaved at the await of the model call (one event loop: the code
\* between two awaits runs without interruption), with valid input against
\* services that take the session; the model answers with a text or raises
ConcEnvs == {"raises", "init_fails", "ok"}
ConcOutputs == {"final", "error"}

NextConc ==
    \/ \E r \in Reqs, c \in KnownIds, env \in ConcEnvs :
            Submit(r, "hi", "e1", c, "u1", NoOverrides, env)
    \/ \E r \in Reqs, out \in ConcOutputs : LlmReturn(r, out)
    \/ \E r \in Reqs : Return(r)
    \/ \E c \in KnownIds : DeleteEndpoint(c, "u1")
    \/ \E kbs \in KbLists : UpdateEmployee("e1", kbs)
    \/ ClearEmployeeAgents

SpecConc == Init /\ [][NextConc]_vars

(***************************************************************************)
(* Views used by the properties                                            *)
(***************************************************************************)
\* the roles of a sequence of stored messages, in order
RolesOf(s) == [i \in 1..Len(s) |-> s[i].role]
Range(s) == {s[i] : i \in 1..Len(s)}

\* the messages appended to a conversation, in call order
AcceptedLog(cid) == log[cid]
StoredIds == DOMAIN conversations
History(cid) == get_conversation_history(conversations, cid, 0)
ModelMessages(cid) == get_conversation_messages(memories, cid, 0)
ModelRoles(cid) ==
    [i \in 1..Len(ModelMessages(cid)) |-> LcRole(ModelMessages(cid)[i])]
Count(cid) == Len(History(cid))

C7_CapInvariant ==
    \A cid \in StoredIds :
        (/\ Len(AcceptedLog(cid)) > max_history
         /\ \E i \in 1..Len(AcceptedLog(cid)) : IsSystem(AcceptedLog(cid)[i]))
        => /\ \A i \in 1..Len(AcceptedLog(cid)) :
                IsSystem(AcceptedLog(cid)[i]) => AcceptedLog(cid)[i] \in Range(History(cid))
           /\ Len(History(cid)) <= max_history

\* C8: a delete of a stored conversation returns true, every later delete of
\* that id returns false, and after a delete the history, the model messages
\* and the state of that id are empty.
C8_IdempotentDelete ==
    \A cid \in DOMAIN del_rets :
        LET d == del_rets[cid] IN
        /\ \A i \in 1..Len(d) : d[i].ret = d[i].existed
        /\ \A i, j \in 1..Len(d) : (i < j /\ d[i].ret) => ~d[j].ret
        /\ d # <<>> =>
              /\ get_conversation_history(conversations, cid, 0) = <<>>
              /\ get_conversation_messages(memories, cid, 0) = <<>>
              /\ get_conversation_state(conversations, cid) = <<>>

\* C8 witness: a conversation that held messages was deleted (true) and
\* deleted again (false)
C8_Witness ==
    \E cid \in ConvIds :
        /\ Len(del_rets[cid]) = 2
        /\ del_rets[cid][1].ret /\ ~del_rets[cid][2].ret
        /\ del_rets[cid][1].held

(***************************************************************************)
(* Properties of the chat turns (Spec)                                     *)
(***************************************************************************)
\* a step of the turn in slot r
TurnStep(r) == req'[r] # req[r]
\* the step in which the agent of the turn in slot r returns
AgentReturns(r) == req[r].pc \in {"llm", "tool"} /\ req'[r].pc = "done"
\* the messages stored under the message_id of a turn
TurnMessages(cid, mid) == SelectSeq(History(cid), LAMBDA m : m.mid = mid)
\* the two messages a turn appends
TurnPair(q) == <<Msg("user", q.message, q.mid),
                 Msg("assistant", q.result.response, q.mid)>>

\* C1: a step of a turn other than the return of a successful agent result
\* leaves every stored conversation stored with its messages and its model
\* messages as they were; so a turn whose agent returns a failure result
\* appends neither message and leaves the message count unchanged.
C1_AtomicTurnPersistence ==
    [][\A r \in Reqs :
         (TurnStep(r) /\ ~(AgentReturns(r) /\ req'[r].result.success))
         => \A cid \in StoredIds :
               /\ cid \in DOMAIN conversations'
               /\ conversations'[cid] = conversations[cid]
               /\ memories'[cid] = memories[cid]]_vars

\* C1 witness: on a conversation that holds the messages of an earlier turn,
\* a turn whose model call raised has returned an agent error
C1_Witness ==
    \E r \in Reqs :
        /\ req[r].pc = "done"
        /\ ~req[r].result.success
        /\ req[r].result.code = "AGENT_ERROR"
        /\ req[r].llm_calls > 0
        /\ Count(req[r].conv) = 2
        /\ TurnMessages(req[r].conv, req[r].mid) = <<>>

C3_BoundedRetrieval ==
    \A r \in Reqs : req[r].path = "react" => req[r].tool_calls <= 1

C9_ValidationFirst ==
    [][\A r \in Reqs :
         (/\ req[r].pc = "idle" /\ req'[r].pc # "idle"
          /\ (req'[r].message = "" \/ req'[r].employee_id = ""))
         => /\ req'[r].pc = "done"
            /\ ~req'[r].result.success
            /\ req'[r].result.code = "VALIDATION_ERROR"
            /\ req'[r].llm_calls = 0 /\ req'[r].tool_calls = 0
            /\ UNCHANGED <<conversations, memories, next_conv, employee_agents>>]_vars

\* C9 witness: a call with an empty message has returned its validation
\* error while a conversation is stored and an agent is cached
C9_Witness ==
    \E r \in Reqs :
        /\ req[r].pc = "done"
        /\ req[r].message = ""
        /\ req[r].result.code = "VALIDATION_ERROR"
        /\ StoredIds # {}
        /\ DOMAIN employee_agents # {}

\* C10, as stated: every failure envelope has success false and an error
\* object, and includes processing_time.
C10_UniformFailureEnvelope ==
    \A r \in Reqs :
        (req[r].pc = "done" /\ ~req[r].result.success)
        => /\ "error" \in req[r].result.keys
           /\ req[r].result.code # ""
           /\ "processing_time" \in req[r].result.keys

(***************************************************************************)
(* Properties of the agent's failure handling (Spec)                       *)
(***************************************************************************)
\* the turn in slot r has been handed to process_message
Invoked(r) == req[r].path # "none"

\* C11, as stated: when the direct call or the reasoning loop of a turn
\* fails, the agent makes one more, direct, call to the raw model client, so
\* an error result is only ever returned by a turn whose last call was that
\* fallback call.
C11_DegradedFallback ==
    \A r \in Reqs :
        (req[r].pc = "done" /\ Invoked(r) /\ ~req[r].result.success)
        => req[r].path = "fallback"

\* C12: whatever the model client and the tool do at any call (a text, an
\* action, output that does not parse, an exception), a turn handed to
\* process_message makes at most max_iterations model calls and tool
\* invocations and ends with the agent's own result, a success reply or the
\* agent's error result with success false; it never ends with the envelope
\* of an exception that escaped the agent.
C12_AgentNeverThrows ==
    \A r \in Reqs :
        Invoked(r) =>
            /\ req[r].pc \in {"llm", "tool", "done"}
            /\ req[r].llm_calls <= AgentMaxIterations
            /\ req[r].tool_calls <= AgentMaxIterations
            /\ req[r].pc = "done" =>
                 \/ req[r].result.success /\ req[r].result.code = ""
                 \/ /\ ~req[r].result.success
                    /\ req[r].result.code = "AGENT_ERROR"
                    /\ "error" \in req[r].result.keys

\* C12 witness: the tool raised in a turn of the tool loop (every model call
\* was followed by a tool invocation), and the turn has returned the agent's
\* error result
C12_Witness ==
    \E r \in Reqs :
        /\ req[r].pc = "done"
        /\ req[r].path = "react"
        /\ req[r].tool_calls >= 1
        /\ req[r].tool_calls = req[r].llm_calls
        /\ ~req[r].result.success
        /\ req[r].result.code = "AGENT_ERROR"

(***************************************************************************)
(* Properties of the agent cache (Spec)                                    *)
(***************************************************************************)
\* the turn in slot r ended with the agent-construction error of
\* process_chat_message
ConstructionFailed(r) ==
    /\ req[r].pc = "done"
    /\ ~Invoked(r)
    /\ req[r].result.code = "AGENT_ERROR"

Serves(r, e) ==
    /\ req[r].pc = "idle"
    /\ req'[r].pc = "llm"
    /\ req'[r].employee_id = e

\* C14: in any interleaving of concurrent requests, an entry of the agent
\* cache is left exactly as it is by every step that does not clear the whole
\* cache, and a request for an employee that has an entry is served by that
\* entry (its executor and its iteration limit) and builds nothing; so
\* between two clears at most one agent is stored per employee_id.
C14_CacheRetention ==
    [][\A e \in DOMAIN employee_agents :
         /\ \/ employee_agents' = <<>>
            \/ /\ e \in DOMAIN employee_agents'
               /\ employee_agents'[e] = employee_agents[e]
         /\ \A r \in Reqs :
              (req[r].pc = "idle" /\ req'[r].pc # "idle" /\ req'[r].employee_id = e)
              => /\ Serves(r, e)
                 /\ req'[r].path = PathOf(employee_agents[e])
                 /\ req'[r].max_iterations = employee_agents[e].max_iterations
                 /\ employee_agents' = employee_agents]_vars

\* C14 witness: two requests for the same employee are in flight at once,
\* both served by the cached agent, which was built with the retrieval tool
\* before the employee's knowledge bases were removed
C14_Witness ==
    /\ \A r \in Reqs : req[r].pc = "llm" /\ req[r].employee_id = "e1"
    /\ "e1" \in DOMAIN employee_agents
    /\ employee_agents["e1"].built_from # employees["e1"]
    /\ \A r \in Reqs : req[r].path = PathOf(employee_agents["e1"])

Accepts(r) ==
    /\ req[r].pc = "idle"
    /\ req'[r].pc # "idle"
    /\ ~InputInvalid(req'[r].message, req'[r].employee_id)

\* C16, as stated: a call with valid input and a conversation_id that is
\* stored uses that conversation, whatever employee it is stored for, creates
\* none and does not fail on a mismatch; a call with no conversation_id, or
\* one that is not stored, creates exactly one new, empty conversation for
\* the request's employee and uses it, leaving the stored ones as they were.
C16_ConversationResolution ==
    [][\A r \in Reqs :
         Accepts(r) =>
           LET given == req'[r].conversation_id
               used == req'[r].conv
           IN  IF given # 0 /\ Exists(conversations, given)
               THEN /\ used = given
                    /\ UNCHANGED <<conversations, memories, next_conv>>
                    /\ req'[r].result.code # "CHAT_SERVICE_ERROR"
               ELSE /\ used \notin StoredIds
                    /\ StoredIds' = StoredIds \cup {used}
                    /\ conversations'[used].employee_id = req'[r].employee_id
                    /\ conversations'[used].messages = <<>>
                    /\ \A c \in StoredIds : conversations'[c] = conversations[c]]_vars

\* C17: a stored conversation keeps the employee_id it was created with in
\* every step that leaves it stored: turns on it, also turns whose request
\* names another employee, appended messages, deletions of other
\* conversations, changes of the employee store and of the agent cache.
C17_EmployeeBindingImmutable ==
    [][\A c \in StoredIds :
         c \in StoredIds' => conversations'[c].employee_id = conversations[c].employee_id]_vars

\* C17 witness: a turn requested for one employee has succeeded on a
\* conversation stored for another employee, and its two messages are stored
\* there
C17_Witness ==
    \E r \in Reqs :
        /\ req[r].pc = "done"
        /\ req[r].result.success
        /\ req[r].conv \in StoredIds
        /\ conversations[req[r].conv].employee_id # req[r].employee_id
        /\ TurnMessages(req[r].conv, req[r].mid) = TurnPair(req[r])

(***************************************************************************)
(* Properties of the calls of the manager's clients (SpecApi)              *)
(***************************************************************************)
\* C18: a delete request removes the conversation, with its messages and its
\* model messages, only when the requester's user_id is the stored user_id
\* of the conversation; a request by any other user is answered 403, and a
\* request for a conversation that is not stored 404, and both leave every
\* stored conversation, message list and memory as it was.
C18_OwnerOnlyDeletion ==
    [][\A c \in KnownIds, u \in UserIds :
         DeleteEndpointCall(c, u) =>
           IF c \in StoredIds /\ conversations[c].user_id = u
           THEN /\ returned'.ret = "200"
                /\ StoredIds' = StoredIds \ {c}
                /\ \A d \in StoredIds' : /\ conversations'[d] = conversations[d]
                                         /\ memories'[d] = memories[d]
           ELSE /\ returned'.ret = IF c \in StoredIds THEN "403" ELSE "404"
                /\ UNCHANGED <<conversations, memories>>]_vars

\* C18 witness: the last request was a delete by a user who is not the
\* stored user of the conversation; it was refused and the conversation is
\* stored with its messages
C18_Witness ==
    /\ returned.op = "delete"
    /\ returned.ret = "403"
    /\ returned.id \in StoredIds
    /\ conversations[returned.id].user_id # returned.arg
    /\ Len(conversations[returned.id].messages) >= 2

\* C19: add_message with a conversation_id that is not stored returns False
\* and leaves every stored conversation, message list and memory as it was,
\* whatever the role.
C19_AppendToUnknown ==
    [][\A c \in KnownIds, role \in Roles :
         (AddMessageCall(c, role) /\ c \notin StoredIds)
         => /\ returned'.ret = "False"
            /\ UNCHANGED <<conversations, memories>>]_vars

\* C19 witness: the last call was an add_message with a supported role on an
\* id that is not stored (it was deleted), it returned False, and another
\* conversation is stored with messages
C19_Witness ==
    /\ returned.op = "add_message"
    /\ returned.arg = "user"
    /\ returned.id # 0
    /\ returned.id \notin StoredIds
    /\ returned.ret = "False"
    /\ \E c \in StoredIds : conversations[c].messages # <<>>

\* C20, as stated: add_message on a stored conversation returns True and
\* appends one message with the role of the call, for each of the roles
\* system, user, assistant and tool.
C20_AcceptedRoles ==
    [][\A c \in KnownIds, role \in Roles :
         (AddMessageCall(c, role) /\ c \in StoredIds)
         => /\ returned'.ret = "True"
            /\ conversations'[c].messages # <<>>
            /\ conversations'[c].messages[Len(conversations'[c].messages)].role = role]_vars

(***************************************************************************)
(* Properties of the history readers (SpecMem)                             *)
(***************************************************************************)
\* C21: for a stored conversation with messages m1..mk and a limit n >= 1,
\* get_conversation_history returns the last min(n, k) stored messages in
\* stored order; without a limit it returns all k; for an id that is not
\* stored it returns the empty sequence, with or without a limit.
C21_HistoryWindow ==
    \A cid \in AnyConvIds :
        LET all == get_conversation_history(conversations, cid, 0) IN
        /\ cid \notin StoredIds => all = <<>>
        /\ cid \in StoredIds => all = conversations[cid].messages
        /\ \A n \in 1..MaxLimit :
             LET h == get_conversation_history(conversations, cid, n)
                 k == Len(all)
             IN  /\ Len(h) = Min(n, k)
                 /\ \A i \in 1..Len(h) : h[i] = all[k - Len(h) + i]

\* C21 witness: a conversation stores at least three messages, so a limit of
\* two cuts the history and a limit of MaxLimit exceeds it
C21_Witness ==
    \E cid \in StoredIds :
        /\ Len(History(cid)) >= 3
        /\ Len(History(cid)) < MaxLimit
        /\ get_conversation_history(conversations, cid, 2) # History(cid)
        /\ get_conversation_history(conversations, cid, MaxLimit) = History(cid)

\* the limits a caller can pass to the readers: none (0), positive, negative
Limits == (0 - 1)..MaxLimit

\* C22, as stated: the two stores hold the same conversation ids and, for
\* each conversation and each limit, get_conversation_messages and
\* get_conversation_history return sequences of the same length with the
\* same role and content at each position.
C22_RepresentationConsistency ==
    /\ DOMAIN memories = DOMAIN conversations
    /\ \A cid \in StoredIds, n \in Limits :
         LET h == get_conversation_history(conversations, cid, n)
             m == get_conversation_messages(memories, cid, n)
         IN  /\ Len(m) = Len(h)
             /\ \A i \in 1..Len(h) :
                  /\ LcRole(m[i]) = h[i].role
                  /\ m[i].content = h[i].content

(***************************************************************************)
(* Properties of create_conversation (SpecMem)                             *)
(***************************************************************************)
\* the effect every create_conversation call has besides its message list:
\* the identifier it returns was never handed out and is not stored, the
\* new conversation is stored for the given employee and user with
\* created_at equal to updated_at, and every conversation stored before is
\* left with its fields, messages and memory
CreatesFresh(e, u) ==
    LET cid == next_conv' IN
    /\ cid \notin KnownIds
    /\ StoredIds' = StoredIds \cup {cid}
    /\ DOMAIN memories' = StoredIds'
    /\ conversations'[cid].employee_id = e
    /\ conversations'[cid].user_id = u
    /\ conversations'[cid].created_at = conversations'[cid].updated_at
    /\ \A c \in StoredIds : /\ conversations'[c] = conversations[c]
                            /\ memories'[c] = memories[c]

InSpan(r) == req[r].pc \in {"llm", "tool"}

ClientError(e) == e.status \in {"400", "401", "404", "422"}
\* a network error, a timeout or an HTTP 5xx status
Transient(e) == e.status \in {"network", "timeout", "500", "503"}
\* the errors of the attempts made so far
Attempts == retry.errors

\* C25, as stated: an attempt that fails with an HTTP 4xx status other than
\* 429 is the last one, and the first: the wrapper raises that error after
\* exactly one attempt.
C25_NoRetryOnClientErrors ==
    \A i \in 1..Len(Attempts) :
        ClientError(Attempts[i])
        => /\ i = 1
           /\ Len(Attempts) = 1
           /\ retry.pc = "raised"
           /\ retry.raised = Attempts[i]

\* C26, as stated: while every attempt has failed with a transient error the
\* wrapper goes on to max_retries attempts in total, sleeping before each
\* re-attempt, and raises the last error only after the last of them; an
\* attempt that succeeds ends the call with its result.
C26_BoundedTransientRetry ==
    (\A i \in 1..Len(Attempts) : Transient(Attempts[i]))
    => /\ Len(Attempts) <= max_retries
       /\ retry.pc = "raised" => /\ Len(Attempts) = max_retries
                                 /\ retry.raised = Attempts[max_retries]
                                 /\ Len(retry.delays) = max_retries - 1
       /\ retry.pc = "calling" => Len(retry.delays) = Len(Attempts)
       /\ retry.pc = "returned" => retry.raised = NoError

(***************************************************************************)
(* Properties of the retrieval tool (SpecKb)                               *)
(***************************************************************************)
\* the entries the id list calls for: an error entry for an id whose lookup
\* raises, a content entry for any other id that is stored, in list order
ExpectedEntries(kb_ids, failing) ==
    LET rel == SelectSeq(kb_ids, LAMBDA k : k \in failing \/ k \in DOMAIN knowledge_bases)
    IN  [j \in 1..Len(rel) |->
            [kb |-> rel[j], kind |-> IF rel[j] \in failing THEN "error" ELSE "content"]]

\* C27, as stated: a run of the tool over a non-empty id list returns a text
\* whose entries are, in the order of the id list, an error entry for each id
\* whose lookup raises and a content entry for each other id that is stored.
C27_PartialFailureTolerance ==
    (retrieval.pc = "returned" /\ retrieval.kb_ids # <<>>)
    => /\ retrieval.text # None
       /\ retrieval.results = ExpectedEntries(retrieval.kb_ids, retrieval.failing)

(***************************************************************************)
(* Properties of the prompt history (Spec)                                 *)
(***************************************************************************)
\* the history in the prompt of the turn request r has just started: what
\* process_message read from the manager, as the executor's prep_inputs
\* leaves it
PromptHistory(r) ==
    prep_inputs(req'[r].path,
                get_conversation_history(conversations', req'[r].conv, HistoryLimit),
                executor_memory'[req'[r].employee_id].buffer)

\* C28, as stated: when a turn reaches the model on the direct or the tool
\* path, the history in its prompt is the last HistoryLimit messages stored
\* for the turn's conversation, oldest first.
C28_HistoryCap ==
    [][\A r \in Reqs :
         (/\ req[r].pc = "idle" /\ req'[r].pc = "llm"
          /\ req'[r].path \in {"direct", "react"})
         => /\ Len(PromptHistory(r)) <= HistoryLimit
            /\ PromptHistory(r) =
                 get_conversation_history(conversations', req'[r].conv, HistoryLimit)]_vars

(***************************************************************************)
(* Properties of the model configuration (SpecModel)                       *)
(***************************************************************************)
\* the three conditions on a configuration: the provider has a credential,
\* the temperature lies in [0, 2], max_tokens, when given, is at least 1
Acceptable(keys, provider, temperature, max_tokens) ==
    /\ provider \in keys
    /\ temperature >= 0 /\ temperature <= 20
    /\ max_tokens # <<>> => max_tokens[1] >= 1

\* the provider and the temperature a request asks for: its own, or the
\* defaults where it gives none
Asked(request) ==
    [provider |-> IF request.provider = None THEN DEFAULT_MODEL_PROVIDER
                  ELSE request.provider,
     temperature |-> IF request.temperature = <<>> THEN MODEL_TEMPERATURE
                     ELSE request.temperature[1],
     max_tokens |-> request.max_tokens]

\* C29, as stated: validate_model_config accepts a configuration only if it
\* meets the three conditions, and a build whose request violates one of them
\* builds no agent and ends with the agent-construction failure.
C29_ModelParameterValidation ==
    /\ (model_build.pc = "validated" /\ model_build.valid)
       => Acceptable(model_build.keys, model_build.config.provider,
                     model_build.config.temperature, model_build.config.max_tokens)
    /\ (/\ model_build.pc = "requested"
        /\ ~Acceptable(model_build.keys, Asked(model_build.request).provider,
                       Asked(model_build.request).temperature,
                       Asked(model_build.request).max_tokens))
       => model_build.outcome = "agent_error"

(***************************************************************************)
(* Properties of the conversation repository (SpecRepo)                    *)
(***************************************************************************)
\* C30, as stated: after any sequence of create_message and create_messages
\* calls, every conversation's message_count is the number of messages rows
\* with its id.
C30_RepositoryMessageCount ==
    \A c \in DOMAIN tables.conversations :
        tables.conversations[c].message_count = CountRows(tables.messages, c)

(***************************************************************************)
(* Properties of the knowledge repository (SpecKbRepo)                     *)
(***************************************************************************)
\* C31, as stated: after any sequence of create_items, delete_item and
\* clear_items calls, every knowledge base's doc_count is the number of
\* knowledge_items rows that belong to it.
C31_DocumentCount ==
    \A kb \in DOMAIN kb_tables.bases :
        kb_tables.bases[kb].doc_count = CountItems(kb_tables.items, kb)

(***************************************************************************)
(* Properties of hiring (SpecHire)                                         *)
(***************************************************************************)
\* C32, as stated: once a user has hired an employee successfully, a later
\* hire_employee call for the same employee by the same user does not
\* succeed (it returns a falsy result or raises) and leaves the employee's
\* hire_count as it was.
C32_DuplicateHireRejected ==
    hiring.last.had_hired =>
        /\ hiring.last.result \in {"None", "raises"}
        /\ hiring.employees[hiring.last.employee_id].hire_count = hiring.last.before

\* the turns (mid) whose messages are stored for a conversation other than cid
StoredElsewhere(convs, cid) ==
    UNION {{convs[c].messages[i].mid : i \in DOMAIN convs[c].messages} :
           c \in DOMAIN convs \ {cid}}

\* C33, as stated: the history placed in the prompt of a turn on one
\* conversation depends only on the messages stored for that conversation:
\* when a turn reaches the model, no message of its prompt history is the
\* message of a turn stored for a different conversation.
C33_CrossConversationIsolation ==
    [][\A r \in Reqs :
         (/\ req[r].pc = "idle" /\ req'[r].pc = "llm")
         => \A i \in DOMAIN PromptHistory(r) :
               PromptHistory(r)[i].mid \notin StoredElsewhere(conversations', req'[r].conv)]_vars

(***************************************************************************)
(* Turn pairs under concurrent turns (SpecConc)                            *)
(***************************************************************************)
\* every stored assistant message that has a message before it follows the
\* user message of its own turn, and every stored user message is followed
\* by the assistant message of its own turn
PairsAdjacent(msgs) ==
    \A i \in DOMAIN msgs :
        /\ (msgs[i].role = "assistant" /\ i > 1)
             => (msgs[i - 1].role = "user" /\ msgs[i - 1].mid = msgs[i].mid)
        /\ msgs[i].role = "user"
             => (/\ i < Len(msgs)
                 /\ msgs[i + 1].role = "assistant"
                 /\ msgs[i + 1].mid = msgs[i].mid)

\* s is the end of t
IsSuffix(s, t) ==
    /\ Len(s) <= Len(t)
    /\ s = SubSeq(t, Len(t) - Len(s) + 1, Len(t))

\* the step in which the agent call of request r completes with a success
Completes(r) ==
    /\ req[r].pc \in {"llm", "tool"}
    /\ req'[r].pc = "done"
    /\ req'[r].result.success

\* C34, as stated: the user message and the assistant message of a
\* successful turn are stored next to each other, user first, with no
\* message of a concurrent turn between them, and the pairs are stored in
\* the order in which the agent calls completed: a conversation's list
\* changes only when a turn on it completes, and then it ends with that
\* turn's pair, after messages it held before.
C34_TurnPairContiguity ==
    [][\A c \in DOMAIN conversations' :
         /\ PairsAdjacent(conversations'[c].messages)
         /\ (c \in DOMAIN conversations
             /\ conversations'[c].messages # conversations[c].messages)
            => \E r \in Reqs :
                 /\ Completes(r)
                 /\ req'[r].conv = c
                 /\ LET new == conversations'[c].messages
                        n == Len(new)
                    IN  /\ n >= 2
                        /\ new[n - 1] = Msg("user", req'[r].message, req'[r].mid)
                        /\ new[n] = Msg("assistant", req'[r].result.response, req'[r].mid)
                        /\ IsSuffix(SubSeq(new, 1, n - 2), conversations[c].messages)]_vars

\* two turns ran on one conversation at the same time and the one submitted
\* later completed first: its pair is stored before the other's
C34_Witness ==
    \E c \in DOMAIN conversations :
        /\ Len(conversations[c].messages) = 4
        /\ conversations[c].messages[1].mid > conversations[c].messages[3].mid

\* C35, as stated: when a conversation was deleted while a turn on it was
\* suspended in the agent call and the agent returns a success, both
\* add_message calls of the turn fail, the conversation is not created again
\* and stays absent, the turn's messages are stored in no conversation, and
\* the caller receives a success envelope with the deleted conversation's id.
C35_DeleteDuringTurn ==
    [][\A r \in Reqs :
         (Completes(r) /\ req[r].conv \notin DOMAIN conversations)
         => /\ req'[r].add_rets = <<FALSE, FALSE>>
            /\ req'[r].conv \notin DOMAIN conversations'
            /\ conversations' = conversations
            /\ memories' = memories
            /\ next_conv' = next_conv
            /\ req'[r].result.success
            /\ "conversation_id" \in req'[r].result.keys
            /\ req'[r].conv = req[r].conv]_vars

\* a turn returned a success after both of its add_message calls failed, and
\* its conversation is not stored
C35_Witness ==
    \E r \in Reqs :
        /\ req[r].pc = "done"
        /\ req[r].result.success
        /\ req[r].add_rets = <<FALSE, FALSE>>
        /\ req[r].conv \notin DOMAIN conversations

(***************************************************************************)
(* Failed turns and the conversation they resolved (Spec)                  *)
(***************************************************************************)
\* the step in which process_chat_message is called without a conversation_id
CalledWithoutId(r) ==
    /\ req[r].pc = "idle"
    /\ req'[r].pc # "idle"
    /\ req'[r].conversation_id = 0

\* the step stores exactly one new conversation, the one of request r, with
\* no messages, and leaves the stored ones as they were
CreatesEmpty(r) ==
    /\ req'[r].conv \notin StoredIds
    /\ StoredIds' = StoredIds \cup {req'[r].conv}
    /\ conversations'[req'[r].conv].messages = <<>>
    /\ \A c \in StoredIds : conversations'[c] = conversations[c]

\* C36, as stated: the conversation is resolved before the agent is resolved
\* and invoked: a call without conversation_id that ends in an
\* agent-construction error or in an agent processing error leaves one newly
\* created conversation with zero messages in the store, and a call rejected
\* by validation creates none.
C36_FailedTurnEmptyConversation ==
    [][\A r \in Reqs :
         /\ (CalledWithoutId(r) /\ req'[r].result.code = "VALIDATION_ERROR")
              => UNCHANGED <<conversations, memories, next_conv>>
         /\ (CalledWithoutId(r)
             /\ (req'[r].result.code = "AGENT_ERROR" \/ req'[r].pc \in {"llm", "tool"}))
              => CreatesEmpty(r)
         /\ (AgentReturns(r) /\ ~req'[r].result.success /\ req[r].conversation_id = 0)
              => /\ UNCHANGED <<conversations, memories, next_conv>>
                 /\ req[r].conv \in StoredIds
                      => conversations'[req[r].conv].messages = <<>>]_vars

\* a call without conversation_id whose model call raised has returned its
\* error, and the conversation it created is stored with no messages
C36_Witness ==
    \E r \in Reqs :
        /\ req[r].pc = "done"
        /\ req[r].conversation_id = 0
        /\ req[r].llm_calls >= 1
        /\ ~req[r].result.success
        /\ req[r].conv \in StoredIds
        /\ conversations[req[r].conv].messages = <<>>
        /\ Cardinality(StoredIds) = 2

(***************************************************************************)
(* Model overrides and the agent cache (SpecOverrides)                     *)
(***************************************************************************)
\* the settings carry every override that o gives
Applies(model, o) ==
    /\ o.provider # None => model.provider = o.provider
    /\ o.temperature # <<>> => model.temperature = o.temperature[1]
    /\ o.max_tokens # <<>> => model.max_tokens = o.max_tokens

\* C37, as stated: the model overrides of a request are used only by the
\* request that builds and caches the employee's agent; every later request
\* for the employee is served by the cached agent with the first request's
\* settings, whatever overrides it carries, until the cache is cleared.
C37_OverridesAtFirstBuild ==
    [][/\ \A e \in DOMAIN employee_agents \cap DOMAIN employee_agents' :
             employee_agents'[e].model = employee_agents[e].model
       /\ \A r \in Reqs :
            (req[r].pc = "idle" /\ req'[r].pc = "llm")
            => LET e == req'[r].employee_id IN
               IF Cached(employee_agents, e)
               THEN employee_agents'[e] = employee_agents[e]
               ELSE Applies(employee_agents'[e].model, req'[r].model_config)]_vars

\* a request that carries a temperature is at the model with a cached agent
\* whose temperature is another one
C37_Witness ==
    \E r \in Reqs :
        /\ req[r].pc = "llm"
        /\ req[r].model_config.temperature # <<>>
        /\ req[r].employee_id \in DOMAIN employee_agents
        /\ employee_agents[req[r].employee_id].model.temperature
             # req[r].model_config.temperature[1]

(***************************************************************************)
(* Trimming (SpecMem)                                                      *)
(***************************************************************************)
\* the last k elements of s, for 0 <= k <= Len(s)
Newest(s, k) == SubSeq(s, Len(s) - k + 1, Len(s))

\* C38, as stated: once the appends to a conversation exceed max_history
\* while it holds s < max_history system messages, the stored history is all
\* s system messages followed by exactly the max_history - s most recently
\* appended non-system messages in append order: only the oldest non-system
\* messages are dropped, and the message just appended is retained.
C38_TrimmingKeepsNewest ==
    \A cid \in StoredIds :
        LET appended == AcceptedLog(cid)
            system_messages == SelectSeq(appended, IsSystem)
            other_messages == SelectSeq(appended, NotSystem)
            s == Len(system_messages)
        IN  (Len(appended) > max_history /\ s < max_history)
            => /\ History(cid) =
                    system_messages \o Newest(other_messages, max_history - s)
               /\ appended[Len(appended)] \in Range(History(cid))

\* a conversation with a system message, appended after other messages, was
\* trimmed: its system messages are fewer than max_history and its oldest
\* non-system message is no longer stored
C38_Witness ==
    \E cid \in StoredIds :
        /\ Len(AcceptedLog(cid)) > max_history
        /\ NotSystem(AcceptedLog(cid)[1])
        /\ \E i \in 1..Len(AcceptedLog(cid)) : IsSystem(AcceptedLog(cid)[i])
        /\ Len(SelectSeq(AcceptedLog(cid), IsSystem)) < max_history
        /\ Len(History(cid)) = max_history
        /\ AcceptedLog(cid)[1] \notin Range(History(cid))

====
